---- MODULE Spec2Model ----
(***************************************************************************)
(* Model of the GitHub release-log generator: the crew pipeline of        *)
(* crew.py/agents.py, the comparison entry point of mcp_server.py and the  *)
(* pure helpers of utils.py.  Text is modelled as TLA+ strings, on which   *)
(* Len, SubSeq and \o act character by character.                          *)
(***************************************************************************)
EXTENDS Integers, Sequences, FiniteSets, TLC

VARIABLES
    \* --- GitHubUtils.parse_repository_url (utils.py) ---
    p_pc,        \* "input" | "parsed"
    p_owner,     \* the owner the input was spelled from
    p_name,      \* the repository name the input was spelled from
    p_form,      \* which spelling was passed in
    p_result,    \* what parse_repository_url returned (or raised)
    \* --- ReleaseLogUtils.categorize_file_changes (utils.py) ---
    c_pc,        \* "input" | "done"
    c_files,     \* the file_changes argument: a sequence of records
    c_cats,      \* the returned mapping bucket name -> sequence of paths
    \* --- GitHubUtils.validate_commit_sha, shorten_sha, EmailUtils.create_subject_line ---
    s_pc,         \* per function: "off" | "input" | "done"
    s_sha,        \* the sha argument (from_commit of the subject line)
    s_other,      \* to_commit of the subject line
    s_length,     \* the length argument of shorten_sha
    s_repository, \* the repository of the subject line
    s_valid,      \* what validate_commit_sha returned
    s_short,      \* what shorten_sha returned
    s_again,      \* what shorten_sha returned on its own result
    s_subject,    \* what create_subject_line returned
    \* --- the web entry points (web_app.py) ---
    w_pc,         \* "off" | "input" | "done"
    w_route,      \* "/generate" | "/api/generate"
    w_data,       \* the posted form or JSON object: field -> value
    w_calls,      \* the requests handed to crew.process_request
    w_response,   \* status code and the message flashed or returned
    \* --- ReleaseLogUtils.generate_version_suggestion (utils.py) ---
    v_pc,        \* "input" | "done"
    v_files,     \* the file_changes argument
    v_commits,   \* the commits_info argument
    v_result,    \* what generate_version_suggestion returned (or raised)
    \* --- GitHubMCPServer.analyze_repository_changes (mcp_server.py) ---
    a_pc,        \* "idle" | "diffed" | "done" | "failed"
    a_args,      \* [repository, from_commit, to_commit]
    a_remote,    \* the hosting site's current answer to compare(from, to)
    a_calls,     \* hosting-API calls made so far, in order
    a_files,     \* file_changes held between the two compare calls
    a_result,    \* the AnalysisResult returned, or the error raised
    \* --- GitHubReleaseLogCrew.process_request (crew.py) ---
    pc,          \* "idle" | "running" | "done"
    request,     \* the GitHubRequest being processed
    stage,       \* index of the task the crew is executing (1..4), 0 before
    iter,        \* tool iterations the current task's agent has used
    observed,    \* the tool observations the current task's agent received
    outputs,     \* outputs of the completed tasks, in task order
    context,     \* per started task: the outputs handed to it as context
    analyses,    \* github_mcp.analyze_repository_changes calls made, in order
    sent,        \* email_service.send_email calls made, in order
    raised,      \* message of the exception that left crew.kickoff(), if any
    outcome,     \* the dict process_request returned
    \* --- concurrent process_request calls (crew.py) ---
    k_pc,        \* per call: "off" | "idle" | "running" | "done"
    k_crew,      \* per call: the GitHubReleaseLogCrew instance it runs on
    k_request,   \* per call: its GitHubRequest
    k_stage,     \* per call: index of the task being executed, 0 before
    k_used,      \* per call: whether the current task's agent used its tool
    k_bound,     \* per (instance, agent): the call whose task the agent holds
    k_calls,     \* tool calls made, in order, with the call that made them
    k_outcome    \* per call: the dict process_request returned

p_vars == <<p_pc, p_owner, p_name, p_form, p_result>>
c_vars == <<c_pc, c_files, c_cats>>
v_vars == <<v_pc, v_files, v_commits, v_result>>
w_vars == <<w_pc, w_route, w_data, w_calls, w_response>>
s_vars == <<s_pc, s_sha, s_other, s_length, s_repository, s_valid, s_short, s_again, s_subject>>
a_vars == <<a_pc, a_args, a_remote, a_calls, a_files, a_result>>
r_vars == <<pc, request, stage, iter, observed, outputs, context, analyses, sent, raised,
           outcome>>
k_vars == <<k_pc, k_crew, k_request, k_stage, k_used, k_bound, k_calls, k_outcome>>
vars == <<p_vars, c_vars, v_vars, a_vars, r_vars, k_vars, s_vars, w_vars>>

None == "<none>"

(***************************************************************************)
(* Python str methods used by the source.                                  *)
(***************************************************************************)
startswith(s, p) == Len(s) >= Len(p) /\ SubSeq(s, 1, Len(p)) = p

endswith(s, p) == Len(s) >= Len(p) /\ SubSeq(s, Len(s) - Len(p) + 1, Len(s)) = p

\* `p in s`
contains(s, p) == \E i \in 1..(Len(s) - Len(p) + 1) : SubSeq(s, i, i + Len(p) - 1) = p

\* s.rstrip(c) for a one-character c
RECURSIVE rstrip(_, _)
rstrip(s, c) ==
    IF Len(s) > 0 /\ SubSeq(s, Len(s), Len(s)) = c
    THEN rstrip(SubSeq(s, 1, Len(s) - 1), c)
    ELSE s

\* s.replace(old, new): every non-overlapping occurrence, left to right
RECURSIVE replace(_, _, _)
replace(s, old, new) ==
    IF Len(s) < Len(old) THEN s
    ELSE IF SubSeq(s, 1, Len(old)) = old
         THEN new \o replace(SubSeq(s, Len(old) + 1, Len(s)), old, new)
         ELSE SubSeq(s, 1, 1) \o replace(SubSeq(s, 2, Len(s)), old, new)

\* s.split(sep) for a one-character sep
RECURSIVE split(_, _)
split(s, sep) ==
    IF ~contains(s, sep) THEN <<s>>
    ELSE LET i == CHOOSE k \in 1..Len(s) :
                     /\ SubSeq(s, k, k) = sep
                     /\ \A j \in 1..(k - 1) : SubSeq(s, j, j) # sep
         IN  <<SubSeq(s, 1, i - 1)>> \o split(SubSeq(s, i + 1, Len(s)), sep)

\* s[:n]
prefix(s, n) == SubSeq(s, 1, IF Len(s) < n THEN Len(s) ELSE n)

Raised(msg) == [ok |-> FALSE, error |-> msg]

(***************************************************************************)
(* GitHubUtils.parse_repository_url                                        *)
(***************************************************************************)
parse_repository_url(repo_input) ==
    LET stripped == rstrip(repo_input, "/")
        bare == IF startswith(stripped, "https://github.com/")
                THEN replace(stripped, "https://github.com/", "")
                ELSE IF startswith(stripped, "git@github.com:")
                     THEN replace(replace(stripped, "git@github.com:", ""), ".git", "")
                     ELSE stripped
        parts == split(bare, "/")
    IN  IF contains(bare, "/") /\ Len(parts) >= 2
        THEN [ok |-> TRUE, owner |-> parts[1], repo |-> parts[2]]
        ELSE Raised("Invalid repository format: " \o bare)

\* The four well-formed spellings of one repository (tests/test_suite.py).
Forms == {"bare", "https", "https_slash", "ssh"}

\* The clone-URL spellings, ending in ".git", besides the ssh one.
GitForms == {"https_git", "bare_git"}

Spell(form, owner, name) ==
    CASE form = "bare"        -> owner \o "/" \o name
      [] form = "https"       -> "https://github.com/" \o owner \o "/" \o name
      [] form = "https_slash" -> "https://github.com/" \o owner \o "/" \o name \o "/"
      [] form = "ssh"         -> "git@github.com:" \o owner \o "/" \o name \o ".git"
      [] form = "https_git"   -> "https://github.com/" \o owner \o "/" \o name \o ".git"
      [] form = "bare_git"    -> owner \o "/" \o name \o ".git"

\* Owners and names the inputs are spelled from.  A name is a run of at most
\* MaxNameParts pieces; a name ending in ".git" is not a repository name.
MaxNameParts == 3

Owners == {"octo", "my-org"}

NamePieces == {"demo", ".github", ".io"}

RECURSIVE NamesOf(_)
NamesOf(n) ==
    IF n = 0 THEN {""}
    ELSE NamesOf(n - 1) \cup {m \o q : m \in NamesOf(n - 1), q \in NamePieces}

Names == {n \in NamesOf(MaxNameParts) : n # "" /\ ~endswith(n, ".git")}

ParseInit ==
    /\ p_pc = "input"
    /\ p_owner \in Owners
    /\ p_name \in Names
    /\ p_form \in Forms \cup GitForms
    /\ p_result = None

Parse ==
    /\ p_pc = "input"
    /\ p_result' = parse_repository_url(Spell(p_form, p_owner, p_name))
    /\ p_pc' = "parsed"
    /\ UNCHANGED <<p_owner, p_name, p_form>>

(***************************************************************************)
(* GitHubUtils.validate_commit_sha, shorten_sha; EmailUtils.create_subject_line *)
(***************************************************************************)
MinShaLength == 4

MaxShaLength == 40

HexDigits == "0123456789abcdefABCDEF"

\* The validation with both length limits exclusive.
validate_commit_sha_exclusive(sha) ==
    IF sha = "" THEN FALSE
    ELSE IF Len(sha) <= MinShaLength \/ Len(sha) >= MaxShaLength THEN FALSE
    ELSE \A i \in 1..Len(sha) : contains(HexDigits, SubSeq(sha, i, i))

validate_commit_sha(sha) ==
    IF sha = "" THEN FALSE
    ELSE IF Len(sha) < MinShaLength \/ Len(sha) > MaxShaLength THEN FALSE
    ELSE \A i \in 1..Len(sha) : contains(HexDigits, SubSeq(sha, i, i))

\* s[:n]: a negative n counts from the end of s.
slice(s, n) ==
    IF n >= 0 THEN prefix(s, n)
    ELSE prefix(s, IF Len(s) + n > 0 THEN Len(s) + n ELSE 0)

\* The shortening cut one character late.
shorten_sha_offByOne(sha, length) ==
    IF Len(sha) > length THEN slice(sha, length + 1) ELSE sha

shorten_sha(sha, length) ==
    IF Len(sha) > length THEN slice(sha, length) ELSE sha

\* length: int = 7
DefaultLength == 7

\* The two non-ASCII characters of the subject line, written in ASCII.
Rocket == "<rocket>"

Arrow == "->"

create_subject_line(repository, from_commit, to_commit) ==
    LET short_from == shorten_sha(from_commit, DefaultLength)
        short_to == shorten_sha(to_commit, DefaultLength)
    IN  Rocket \o " Release Log: " \o repository
            \o " (" \o short_from \o Arrow \o short_to \o ")"

RECURSIVE Repeat(_, _)
Repeat(s, n) == IF n = 0 THEN "" ELSE s \o Repeat(s, n - 1)

\* Strings handed in as a sha: hex and non-hex, of every length around the
\* two limits and around the default shortening length.
Shas ==
    {Repeat("a", n) : n \in {0, 1, 3, 4, 5, 39, 40, 41}}
        \cup {"abc123", "1234567890abcdef", "1234567890abcdef1234567890abcdef12345678",
              "abc", "xyz123", "ABCDEF", "abc123def", "def456abc", "12g4", "dead beef",
              "0x1f", "v1.0.0", "main", "abcdef0", "abcdef01",
              Repeat("g", 40), Repeat("0123456789", 4) \o "-"}

Lengths == {-1, 0, 1, 4, 7, 8, 40, 41}

ShaInit ==
    /\ s_pc = [validate |-> "input", shorten |-> "input", subject |-> "input"]
    /\ s_sha \in Shas
    /\ s_other \in {"def456abc", "main", "1234567890abcdef1234567890abcdef12345678"}
    /\ s_length \in Lengths
    /\ s_repository \in {"owner/repo", "octo/demo"}
    /\ s_valid = FALSE
    /\ s_short = ""
    /\ s_again = ""
    /\ s_subject = ""

ValidateSha ==
    /\ s_pc.validate = "input"
    /\ s_valid' = validate_commit_sha(s_sha)
    /\ s_pc' = [s_pc EXCEPT !.validate = "done"]
    /\ UNCHANGED <<s_sha, s_other, s_length, s_repository, s_short, s_again, s_subject>>

\* shorten_sha, and shorten_sha once more on what it returned.
ShortenSha ==
    /\ s_pc.shorten = "input"
    /\ s_short' = shorten_sha(s_sha, s_length)
    /\ s_again' = shorten_sha(shorten_sha(s_sha, s_length), s_length)
    /\ s_pc' = [s_pc EXCEPT !.shorten = "done"]
    /\ UNCHANGED <<s_sha, s_other, s_length, s_repository, s_valid, s_subject>>

CreateSubject ==
    /\ s_pc.subject = "input"
    /\ s_subject' = create_subject_line(s_repository, s_sha, s_other)
    /\ s_pc' = [s_pc EXCEPT !.subject = "done"]
    /\ UNCHANGED <<s_sha, s_other, s_length, s_repository, s_valid, s_short, s_again>>

(***************************************************************************)
(* ReleaseLogUtils.categorize_file_changes                                 *)
(***************************************************************************)
Buckets == {"source_code", "tests", "documentation", "config", "dependencies", "other"}

\* dict.get(key, default)
get(d, key, default) == IF key \in DOMAIN d THEN d[key] ELSE default

\* A dict without any key.
EmptyDict == [k \in {} |-> ""]

\* The if/elif chain that picks the bucket of one file_path.
Category_configFirst(file_path) ==
    IF \/ \E pattern \in {"/test/", "_test.", ".test.", "/tests/", "spec."} :
              contains(file_path, pattern)
       \/ startswith(file_path, "test/") \/ startswith(file_path, "tests/")
       \/ contains(file_path, "/test/") \/ contains(file_path, "/tests/")
    THEN "tests"
    ELSE IF \E ext \in {".md", ".txt", ".rst", ".adoc"} : endswith(file_path, ext)
    THEN "documentation"
    ELSE IF \E ext \in {".json", ".yaml", ".yml", ".toml", ".ini", ".env"} :
                endswith(file_path, ext)
    THEN "config"
    ELSE IF \E pattern \in {"package.json", "requirements.txt", "Gemfile", "pom.xml",
                            "build.gradle"} : contains(file_path, pattern)
    THEN "dependencies"
    ELSE IF \E ext \in {".py", ".js", ".ts", ".java", ".cpp", ".c", ".go", ".rb", ".php",
                        ".rs", ".swift"} : endswith(file_path, ext)
    THEN "source_code"
    ELSE "other"

Category(file_path) ==
    IF \/ \E pattern \in {"/test/", "_test.", ".test.", "/tests/", "spec."} :
              contains(file_path, pattern)
       \/ startswith(file_path, "test/") \/ startswith(file_path, "tests/")
       \/ contains(file_path, "/test/") \/ contains(file_path, "/tests/")
    THEN "tests"
    ELSE IF \E ext \in {".md", ".txt", ".rst", ".adoc"} : endswith(file_path, ext)
    THEN "documentation"
    ELSE IF \E pattern \in {"package.json", "requirements.txt", "Gemfile", "pom.xml",
                            "build.gradle"} : contains(file_path, pattern)
    THEN "dependencies"
    ELSE IF \E ext \in {".json", ".yaml", ".yml", ".toml", ".ini", ".env"} :
                endswith(file_path, ext)
    THEN "config"
    ELSE IF \E ext \in {".py", ".js", ".ts", ".java", ".cpp", ".c", ".go", ".rb", ".php",
                        ".rs", ".swift"} : endswith(file_path, ext)
    THEN "source_code"
    ELSE "other"

\* The loop without its final else: a path matching no rule is dropped.
RECURSIVE CategorizeFrom_noElse(_, _)
CategorizeFrom_noElse(categories, file_changes) ==
    IF file_changes = <<>> THEN categories
    ELSE LET file_path == get(Head(file_changes), "file_path", "")
         IN  CategorizeFrom_noElse(
                 IF Category(file_path) = "other" THEN categories
                 ELSE [categories EXCEPT ![Category(file_path)] = Append(@, file_path)],
                 Tail(file_changes))

\* The loop over file_changes, appending each file_path to its bucket.
RECURSIVE CategorizeFrom(_, _)
CategorizeFrom(categories, file_changes) ==
    IF file_changes = <<>> THEN categories
    ELSE LET file_path == get(Head(file_changes), "file_path", "")
         IN  CategorizeFrom(
                 [categories EXCEPT ![Category(file_path)] = Append(@, file_path)],
                 Tail(file_changes))

categorize_file_changes(file_changes) ==
    CategorizeFrom([b \in Buckets |-> <<>>], file_changes)

\* Inputs: lists of at most MaxFiles file-change dicts.
MaxFiles == 2

DirPrefixes == {"", "src/", "tests/"}

FileNames == {"main.py", "README.md", "package.json", "requirements.txt", "Gemfile",
              "Gemfile.lock", "config.yaml", "Makefile", "app_test.go", "Main.PY",
              "test_main.py"}

Paths == {d \o f : d \in DirPrefixes, f \in FileNames}
             \cup {"lib/test/util.js", "widget_spec.rb", "a.test.js", "Tests/x.py",
                   "docs/pom.xml", "my-package.json", "test/run.sh", "pkg/tests/a.c",
                   "docs/guide.rst", "settings.toml"}

FileChanges == {[file_path |-> p] : p \in Paths} \cup {EmptyDict}

RECURSIVE ListsOf(_, _)
ListsOf(S, n) ==
    IF n = 0 THEN {<<>>}
    ELSE ListsOf(S, n - 1) \cup {Append(l, x) : l \in ListsOf(S, n - 1), x \in S}

CatInit ==
    /\ c_pc = "input"
    /\ c_files \in ListsOf(FileChanges, MaxFiles)
    /\ c_cats = None

Categorize ==
    /\ c_pc = "input"
    /\ c_cats' = categorize_file_changes(c_files)
    /\ c_pc' = "done"
    /\ UNCHANGED c_files

(***************************************************************************)
(* ReleaseLogUtils.generate_version_suggestion                             *)
(***************************************************************************)
UpperCase == "ABCDEFGHIJKLMNOPQRSTUVWXYZ"

LowerCase == "abcdefghijklmnopqrstuvwxyz"

\* str.lower()
RECURSIVE lower(_)
lower(s) ==
    IF s = "" THEN ""
    ELSE LET c == SubSeq(s, 1, 1)
             at == {i \in 1..Len(UpperCase) : SubSeq(UpperCase, i, i) = c}
         IN  (IF at = {} THEN c
              ELSE LET i == CHOOSE k \in at : TRUE IN SubSeq(LowerCase, i, i))
             \o lower(SubSeq(s, 2, Len(s)))

breaking_keywords == {"BREAKING", "breaking change", "breaking:", "major:"}

feature_keywords == {"feat:", "feature:", "add:", "new:"}

\* The loop with the flags following the last marked commit only.
RECURSIVE ScanCommits_lastWins(_, _)
ScanCommits_lastWins(flags, commits_info) ==
    IF commits_info = <<>> THEN flags
    ELSE LET message == lower(get(Head(commits_info), "message", ""))
         IN  IF \E keyword \in breaking_keywords : contains(message, lower(keyword))
             THEN ScanCommits_lastWins(
                      [flags EXCEPT !.has_breaking = TRUE, !.has_features = FALSE],
                      Tail(commits_info))
             ELSE IF \E keyword \in feature_keywords : contains(message, lower(keyword))
             THEN ScanCommits_lastWins(
                      [flags EXCEPT !.has_breaking = FALSE, !.has_features = TRUE],
                      Tail(commits_info))
             ELSE ScanCommits_lastWins(flags, Tail(commits_info))

\* The loop over commits_info setting has_breaking / has_features.  A
\* message that is None has no lower(): the call raises.
RECURSIVE ScanCommits(_, _)
ScanCommits(flags, commits_info) ==
    IF commits_info = <<>> THEN flags
    ELSE LET raw == get(Head(commits_info), "message", "")
         IN  IF raw = None
             THEN Raised("'NoneType' object has no attribute 'lower'")
             ELSE LET message == lower(raw)
                  IN  IF \E keyword \in breaking_keywords : contains(message, lower(keyword))
                      THEN ScanCommits([flags EXCEPT !.has_breaking = TRUE],
                                       Tail(commits_info))
                      ELSE IF \E keyword \in feature_keywords :
                                  contains(message, lower(keyword))
                      THEN ScanCommits([flags EXCEPT !.has_features = TRUE],
                                       Tail(commits_info))
                      ELSE ScanCommits(flags, Tail(commits_info))

\* The final decision with the feature test ahead of the breaking test.
Suggestion_featuresFirst(has_breaking, has_features, has_code_changes) ==
    IF has_features \/ has_code_changes THEN "minor"
    ELSE IF has_breaking THEN "major"
    ELSE "patch"

\* The final decision without the source-code test.
Suggestion_commitsOnly(has_breaking, has_features, has_code_changes) ==
    IF has_breaking THEN "major"
    ELSE IF has_features THEN "minor"
    ELSE "patch"

\* The final if/elif/else.
Suggestion(has_breaking, has_features, has_code_changes) ==
    IF has_breaking THEN "major"
    ELSE IF has_features \/ has_code_changes THEN "minor"
    ELSE "patch"

generate_version_suggestion(file_changes, commits_info) ==
    LET flags == ScanCommits([ok |-> TRUE, has_breaking |-> FALSE, has_features |-> FALSE],
                             commits_info)
        categories == categorize_file_changes(file_changes)
        has_code_changes == Len(categories["source_code"]) > 0
    IN  IF ~flags.ok THEN flags
        ELSE [ok |-> TRUE,
              value |-> Suggestion(flags.has_breaking, flags.has_features, has_code_changes)]

\* Inputs: at most MaxFiles file changes and at most MaxCommits commits.
MaxCommits == 2

VersionFiles ==
    {[file_path |-> "src/a.py"], [file_path |-> "README.md"],
     [file_path |-> "tests/test_a.py"], EmptyDict}

Messages ==
    {"BREAKING: remove deprecated API", "feat: add widget", "fix typo", "chore: z",
     "New: dashboard (Breaking Change for plugins)", "Major: new engine"}

Commits == {[message |-> m] : m \in Messages} \cup {EmptyDict}

\* Commit dicts as any caller can build them: the message may be None.
AnyCommits == Commits \cup {[message |-> None]}

VersionInit ==
    /\ v_pc = "input"
    /\ v_files \in ListsOf(VersionFiles, MaxFiles)
    /\ v_commits \in ListsOf(Commits, MaxCommits)
    /\ v_result = None

ClassifyInit ==
    /\ v_pc = "input"
    /\ v_files \in ListsOf(VersionFiles, MaxFiles)
    /\ v_commits \in ListsOf(AnyCommits, MaxCommits)
    /\ v_result = None

\* Inputs for comparing one call with calls on rearranged and on longer
\* lists: one message of each kind, one file of each kind.
OrderMessages == {"BREAKING: x", "feat: y", "fix z", "new: major: w"}

OrderFiles == {[file_path |-> "a.py"], [file_path |-> "b.md"]}

OrderInit ==
    /\ v_pc = "input"
    /\ v_files \in ListsOf(OrderFiles, MaxFiles)
    /\ v_commits \in ListsOf({[message |-> m] : m \in OrderMessages}, MaxCommits)
    /\ v_result = None

SuggestVersion ==
    /\ v_pc = "input"
    /\ v_result' = generate_version_suggestion(v_files, v_commits)
    /\ v_pc' = "done"
    /\ UNCHANGED <<v_files, v_commits>>


(***************************************************************************)
(* GitHubMCPServer (mcp_server.py) and the hosting API it talks to         *)
(***************************************************************************)
parse_repository(repository) ==
    IF startswith(repository, "https://github.com/")
    THEN [ok |-> TRUE, value |-> rstrip(replace(repository, "https://github.com/", ""), "/")]
    ELSE IF contains(repository, "/")
         THEN [ok |-> TRUE, value |-> repository]
         ELSE Raised("Invalid repository format. Use 'owner/repo' or full GitHub URL")

\* The loop with the patch copied as it is, absent or not.
get_commit_diff_rawPatch(comparison) ==
    [i \in 1..Len(comparison.files) |->
        LET file == comparison.files[i]
        IN  [file_path |-> file.filename,
             additions |-> file.additions,
             deletions |-> file.deletions,
             changes   |-> file.patch,
             status    |-> file.status]]

\* get_commit_diff's loop: one CommitDiff per file of the comparison.
get_commit_diff(comparison) ==
    [i \in 1..Len(comparison.files) |->
        LET file == comparison.files[i]
        IN  [file_path |-> file.filename,
             additions |-> file.additions,
             deletions |-> file.deletions,
             changes   |-> IF file.patch = None THEN "" ELSE file.patch,
             status    |-> file.status]]

\* get_commits_info's loop: one dict per commit of the comparison.
get_commits_info(comparison) ==
    [i \in 1..Len(comparison.commits) |->
        LET commit == comparison.commits[i]
        IN  [sha |-> commit.sha, message |-> commit.message, author |-> commit.author,
             date |-> commit.date, url |-> commit.html_url]]

\* sum(f(change) for change in file_changes), accumulated in list order
RECURSIVE SumOver(_, _)
SumOver(file_changes, field) ==
    IF file_changes = <<>> THEN 0
    ELSE Head(file_changes)[field] + SumOver(Tail(file_changes), field)

\* The totals with the additions summed into both counters.
Totals_additionsTwice(file_changes) ==
    [total_files_changed |-> Len(file_changes),
     total_additions     |-> SumOver(file_changes, "additions"),
     total_deletions     |-> SumOver(file_changes, "additions")]

\* "Calculate totals"
Totals(file_changes) ==
    [total_files_changed |-> Len(file_changes),
     total_additions     |-> SumOver(file_changes, "additions"),
     total_deletions     |-> SumOver(file_changes, "deletions")]

\* "Create summary" and the AnalysisResult that is returned.
\* A result that keeps the pointer as the summary shows it.
StoredPointer_short(pointer) == prefix(pointer, 8)

\* from_commit=from_commit, to_commit=to_commit: the pointer as passed in.
StoredPointer(pointer) == pointer

MakeAnalysisResult(repo_name, from_commit, to_commit, file_changes, commits_info) ==
    LET t == Totals(file_changes)
        summary ==
            "Analysis of " \o repo_name \o " from " \o prefix(from_commit, 8)
                \o " to " \o prefix(to_commit, 8) \o ":\n"
            \o "- " \o ToString(t.total_files_changed) \o " files changed\n"
            \o "- " \o ToString(t.total_additions) \o " additions, "
                \o ToString(t.total_deletions) \o " deletions\n"
            \o "- " \o ToString(Len(commits_info)) \o " commits analyzed"
    IN  [ok |-> TRUE,
         repository          |-> repo_name,
         from_commit         |-> StoredPointer(from_commit),
         to_commit           |-> StoredPointer(to_commit),
         total_files_changed |-> t.total_files_changed,
         total_additions     |-> t.total_additions,
         total_deletions     |-> t.total_deletions,
         file_changes        |-> file_changes,
         summary             |-> summary]

\* The hosting site.  Every repository the inputs are spelled from exists
\* under its full name owner/name; revision pointers outside Revisions do not
\* resolve; any call can fail because the site is unreachable.
HostedOwners == {"octo"}

HostedNames == {"demo", "hub.io"}

Hosted == {o \o "/" \o n : o \in HostedOwners, n \in HostedNames}

Revisions == {"v1.0.0", "main", "0123456789abcdef0123"}

\* Github.get_repo(repo_name)
GetRepo(repo_name, reachable) ==
    IF ~reachable THEN Raised("503 Service Unavailable")
    ELSE IF repo_name \notin Hosted THEN Raised("404 Not Found")
    ELSE [ok |-> TRUE, value |-> repo_name]

\* Repository.compare(base, head) against the site's current state
Compare(remote, base, head, reachable) ==
    IF ~reachable THEN Raised("503 Service Unavailable")
    ELSE IF base \notin Revisions \/ head \notin Revisions THEN Raised("404 Not Found")
    ELSE [ok |-> TRUE, value |-> remote]

\* What the site can answer to a comparison: at most MaxApiFiles files and
\* at most MaxApiCommits commits.
MaxApiFiles == 2

MaxApiCommits == 1

ApiFiles ==
    {[filename |-> "src/a.py", additions |-> 10, deletions |-> 2, patch |-> "@@ -1 +1 @@",
      status |-> "modified"],
     [filename |-> "README.md", additions |-> 3, deletions |-> 0, patch |-> None,
      status |-> "modified"]}

ApiCommits ==
    {[sha |-> "0123456789abcdef0123", message |-> "feat: add widget", author |-> "ann",
      date |-> "2024-01-02T03:04:05", html_url |-> "https://github.com/octo/demo/commit/0123"],
     [sha |-> "fedcba98765432100000", message |-> "fix typo", author |-> "bob",
      date |-> "2024-01-03T03:04:05", html_url |-> "https://github.com/octo/demo/commit/fedc"]}

Comparisons ==
    [files : ListsOf(ApiFiles, MaxApiFiles), commits : ListsOf(ApiCommits, MaxApiCommits)]

\* analyze_repository_changes as one call; `host` gives what the site answers
\* to get_repo and to each of the two compare calls.
analyze_repository_changes(repository, from_commit, to_commit, host) ==
    LET parsed == parse_repository(repository)
        repo == GetRepo(parsed.value, host.reachable[1])
        first == Compare(host.first, from_commit, to_commit, host.reachable[2])
        second == Compare(host.second, from_commit, to_commit, host.reachable[3])
    IN  IF ~parsed.ok THEN parsed
        ELSE IF ~repo.ok THEN repo
        ELSE IF ~first.ok THEN first
        ELSE IF ~second.ok THEN second
        ELSE MakeAnalysisResult(parsed.value, from_commit, to_commit,
                                get_commit_diff(first.value), get_commits_info(second.value))

\* Arguments of the comparison entry point.
MalformedRepositories == {"a/b/c", "/demo", "octo/", "https://github.com/octo"}

AnalyzeRepositories ==
    {Spell(f, o, n) : f \in Forms, o \in HostedOwners, n \in HostedNames}
        \cup {"nodemo"} \cup MalformedRepositories

AnalyzeArgs ==
    [repository : AnalyzeRepositories, from_commit : {"v1.0.0"},
     to_commit : {"main", "0123456789abcdef0123", "v9"}]

AnalyzeInit ==
    /\ a_pc = "idle"
    /\ a_args \in AnalyzeArgs
    /\ a_remote \in Comparisons
    /\ a_calls = <<>>
    /\ a_files = <<>>
    /\ a_result = None

\* Lines 82-90: parse, get_repository, get_commit_diff.
AnalyzeStart ==
    /\ a_pc = "idle"
    /\ \E reachable \in [1..2 -> BOOLEAN] :
         LET parsed == parse_repository(a_args.repository)
             repo == GetRepo(parsed.value, reachable[1])
             cmp == Compare(a_remote, a_args.from_commit, a_args.to_commit, reachable[2])
         IN  IF ~parsed.ok
             THEN /\ a_pc' = "failed" /\ a_result' = parsed
                  /\ UNCHANGED <<a_calls, a_files>>
             ELSE IF ~repo.ok
             THEN /\ a_pc' = "failed" /\ a_result' = repo
                  /\ a_calls' = Append(a_calls, <<"get_repo", parsed.value>>)
                  /\ UNCHANGED a_files
             ELSE /\ a_calls' = a_calls \o <<<<"get_repo", parsed.value>>,
                                  <<"compare", a_args.from_commit, a_args.to_commit>>>>
                  /\ IF ~cmp.ok
                     THEN a_pc' = "failed" /\ a_result' = cmp /\ UNCHANGED a_files
                     ELSE /\ a_pc' = "diffed"
                          /\ a_files' = get_commit_diff(cmp.value)
                          /\ UNCHANGED a_result
    /\ UNCHANGED <<a_args, a_remote>>

\* Lines 92-115: get_commits_info, totals, summary, result.
AnalyzeFinish ==
    /\ a_pc = "diffed"
    /\ \E reachable \in BOOLEAN :
         LET cmp == Compare(a_remote, a_args.from_commit, a_args.to_commit, reachable)
         IN  /\ a_calls' = Append(a_calls, <<"compare", a_args.from_commit, a_args.to_commit>>)
             /\ IF ~cmp.ok
                THEN a_pc' = "failed" /\ a_result' = cmp
                ELSE /\ a_pc' = "done"
                     /\ a_result' = MakeAnalysisResult(
                            parse_repository(a_args.repository).value,
                            a_args.from_commit, a_args.to_commit,
                            a_files, get_commits_info(cmp.value))
    /\ UNCHANGED <<a_args, a_remote, a_files>>

\* The repository is pushed to while the analysis runs.
RemoteUpdate ==
    /\ a_pc = "diffed"
    /\ a_remote' \in Comparisons \ {a_remote}
    /\ UNCHANGED <<a_pc, a_args, a_calls, a_files, a_result>>

(***************************************************************************)
(* The crew pipeline: agents.py, tasks.py, crew.py                         *)
(***************************************************************************)
\* Agent(max_iter=3)
max_iter == 3

TaskNames == <<"github_task", "code_analysis_task", "release_log_task", "email_task">>

NumTasks == Len(TaskNames)

\* Every task given every earlier task as context.
TaskContext_allEarlier(task) == [i \in 1..(task - 1) |-> i]

\* The tasks each task is given as context (task.context = [...]).
TaskContext(task) == IF task = 1 THEN <<>> ELSE <<task - 1>>

\* json.dumps(result.dict(), indent=2), cut down to the fields used here
Dumps(result) ==
    "{\"repository\": \"" \o result.repository \o "\", \"total_files_changed\": "
        \o ToString(result.total_files_changed) \o ", \"summary\": \""
        \o result.summary \o "\"}"

\* GitHubAnalyzerTool._run: the text handed back to the agent
GitHubAnalyzerTool_run(result) ==
    IF result.ok THEN Dumps(result)
    ELSE "Error analyzing repository: " \o result.error

\* GitHubMCPServer.get_repository_info
get_repository_info(repository, reachable) ==
    LET parsed == parse_repository(repository)
        repo == GetRepo(parsed.value, reachable)
    IN  IF ~parsed.ok THEN parsed
        ELSE IF ~repo.ok THEN repo
        ELSE [ok |-> TRUE, full_name |-> repo.value]

\* RepositoryInfoTool._run
RepositoryInfoTool_run(info) ==
    IF info.ok THEN "{\"full_name\": \"" \o info.full_name \o "\"}"
    ELSE "Error getting repository info: " \o info.error

\* email_service.send_email: delivers, reports failure, or raises
SendEmailOutcomes ==
    {[ok |-> TRUE, value |-> TRUE], [ok |-> TRUE, value |-> FALSE],
     Raised("SMTP connection refused")}

\* EmailSenderTool._run
EmailSenderTool_run(recipient_email, subject, success) ==
    IF ~success.ok THEN "Error sending email: " \o success.error
    ELSE IF success.value
         THEN "Email successfully sent to " \o recipient_email \o " with subject: " \o subject
         ELSE "Failed to send email to " \o recipient_email

\* The except branch with the cause left out of the message.
ErrorOutcome_noCause(req, e) ==
    [status |-> "error",
     message |-> "Error processing request",
     repository |-> req.repository,
     from_commit |-> req.from_commit,
     to_commit |-> req.to_commit,
     recipient_email |-> req.recipient_email]

\* The dict returned from the except branch.
ErrorOutcome(req, e) ==
    [status |-> "error",
     message |-> "Error processing request: " \o e,
     repository |-> req.repository,
     from_commit |-> req.from_commit,
     to_commit |-> req.to_commit,
     recipient_email |-> req.recipient_email]

\* The success dict with the two revision pointers exchanged.
SuccessOutcome_swapped(req, result) ==
    [status |-> "success",
     message |-> "Release log generated and email sent successfully",
     repository |-> req.repository,
     from_commit |-> req.to_commit,
     to_commit |-> req.from_commit,
     recipient_email |-> req.recipient_email,
     result |-> result]

\* The dict returned after crew.kickoff() came back.
SuccessOutcome(req, result) ==
    [status |-> "success",
     message |-> "Release log generated and email sent successfully",
     repository |-> req.repository,
     from_commit |-> req.from_commit,
     to_commit |-> req.to_commit,
     recipient_email |-> req.recipient_email,
     result |-> result]

\* Requests, what the hosting site answers during a run, and the failures
\* an agent's own execution (its language-model calls) can raise.
Requests ==
    [repository : {"octo/demo", "git@github.com:octo/demo.git", "nodemo"},
     from_commit : {"v1.0.0"}, to_commit : {"main"},
     recipient_email : {"dev@example.com", "ops@example.com"}]

RunComparison ==
    [files |-> <<CHOOSE f \in ApiFiles : f.filename = "src/a.py">>,
     commits |-> <<CHOOSE c \in ApiCommits : c.author = "ann">>]

RunHosts ==
    {[reachable |-> <<r, TRUE, TRUE>>, first |-> RunComparison, second |-> RunComparison] :
        r \in BOOLEAN}

AgentErrors == {"Request timed out.", "Rate limit reached"}

RunInit ==
    /\ pc = "idle"
    /\ request \in Requests
    /\ stage = 0
    /\ iter = 0
    /\ observed = <<>>
    /\ outputs = <<>>
    /\ context = <<>>
    /\ analyses = <<>>
    /\ sent = <<>>
    /\ raised = None
    /\ outcome = None

\* The context text of a task: the outputs of the tasks in task.context.
ContextOf(task, done) == [i \in 1..Len(TaskContext(task)) |->
                             [task |-> TaskNames[TaskContext(task)[i]],
                              output |-> done[TaskContext(task)[i]]]]

\* process_request up to crew.kickoff() starting the first task.
Kickoff ==
    /\ pc = "idle"
    /\ pc' = "running"
    /\ stage' = 1
    /\ context' = <<ContextOf(1, outputs)>>
    /\ UNCHANGED <<request, iter, observed, outputs, analyses, sent, raised, outcome>>

\* The GitHub analyzer agent uses github_analyzer.
UseGitHubAnalyzerTool ==
    /\ pc = "running" /\ stage = 1 /\ iter < max_iter
    /\ \E host \in RunHosts :
         LET result == analyze_repository_changes(request.repository, request.from_commit,
                                                  request.to_commit, host)
         IN  /\ analyses' = Append(analyses, [ok |-> result.ok,
                                   error |-> IF result.ok THEN None ELSE result.error])
             /\ observed' = Append(observed, GitHubAnalyzerTool_run(result))
    /\ iter' = iter + 1
    /\ UNCHANGED <<pc, request, stage, outputs, context, sent, raised, outcome>>

\* The GitHub analyzer agent uses repository_info.
UseRepositoryInfoTool ==
    /\ pc = "running" /\ stage = 1 /\ iter < max_iter
    /\ \E reachable \in BOOLEAN :
         observed' = Append(observed, RepositoryInfoTool_run(
                                 get_repository_info(request.repository, reachable)))
    /\ iter' = iter + 1
    /\ UNCHANGED <<pc, request, stage, outputs, context, analyses, sent, raised, outcome>>

\* The email agent uses email_sender.
UseEmailSenderTool ==
    /\ pc = "running" /\ stage = 4 /\ iter < max_iter
    /\ \E success \in SendEmailOutcomes :
         LET subject == "Release Log for " \o request.repository
         IN  /\ sent' = Append(sent, [recipient_email |-> request.recipient_email,
                                      release_log |-> context[4],
                                      returned |-> IF success.ok THEN success.value ELSE FALSE,
                                      raised |-> ~success.ok])
             /\ observed' = Append(observed, EmailSenderTool_run(
                                       request.recipient_email, subject, success))
    /\ iter' = iter + 1
    /\ UNCHANGED <<pc, request, stage, outputs, context, analyses, raised, outcome>>

\* A crew that starts the same task again.
NextTask_again(task) == task

\* Process.sequential: the task after this one in Crew(tasks=[...]).
NextTask(task) == task + 1

\* The current task's agent gives its final answer; the crew goes on to the
\* next task, or kickoff() returns and process_request reports success.
\* The agents do what their task descriptions tell them: the first task's
\* agent has used github_analyzer, the last task's agent email_sender.
TaskCompletes ==
    /\ pc = "running"
    /\ stage = 1 => analyses # <<>>
    /\ stage = NumTasks => sent # <<>>
    /\ LET output == [task |-> TaskNames[stage], observations |-> observed]
       IN  /\ outputs' = Append(outputs, output)
           /\ IF stage < NumTasks
              THEN /\ stage' = NextTask(stage)
                   /\ context' = Append(context, ContextOf(NextTask(stage),
                                                            Append(outputs, output)))
                   /\ UNCHANGED <<pc, outcome>>
              ELSE /\ pc' = "done"
                   /\ outcome' = SuccessOutcome(request, output)
                   /\ UNCHANGED <<stage, context>>
    /\ iter' = 0
    /\ observed' = <<>>
    /\ UNCHANGED <<request, analyses, sent, raised>>

\* An exception that is recorded while the crew carries on.
TaskRaises_carriesOn ==
    /\ pc = "running"
    /\ raised = None
    /\ \E e \in AgentErrors :
         /\ raised' = e
         /\ outcome' = ErrorOutcome(request, e)
    /\ UNCHANGED <<pc, request, stage, iter, observed, outputs, context, analyses, sent>>

\* The current task's agent raises; the exception leaves kickoff() and
\* process_request's except branch returns the error dict.
TaskRaises ==
    /\ pc = "running"
    /\ \E e \in AgentErrors :
         /\ raised' = e
         /\ outcome' = ErrorOutcome(request, e)
    /\ pc' = "done"
    /\ UNCHANGED <<request, stage, iter, observed, outputs, context, analyses, sent>>

(***************************************************************************)
(* The web entry points (web_app.py)                                       *)
(***************************************************************************)
RequestFields == {"repository", "from_commit", "to_commit", "recipient_email"}

\* A field that was not posted, and a JSON null.
Absent == "<absent>"

Null == "<null>"

FilledIn ==
    [repository |-> "octo/demo", from_commit |-> "v1.0.0", to_commit |-> "main",
     recipient_email |-> "dev@example.com"]

\* str.strip()
RECURSIVE strip(_)
strip(s) ==
    IF s = "" THEN ""
    ELSE IF SubSeq(s, 1, 1) \in {" ", "\t", "\n"} THEN strip(SubSeq(s, 2, Len(s)))
    ELSE IF SubSeq(s, Len(s), Len(s)) \in {" ", "\t", "\n"}
         THEN strip(SubSeq(s, 1, Len(s) - 1))
    ELSE s

\* What crew.process_request can return to the handler.
ProcessStatuses == {"success", "error"}

WebInit ==
    /\ w_pc = "input"
    /\ w_route \in {"/generate", "/api/generate"}
    /\ w_data \in {d \in [RequestFields -> {Absent, Null, "", " ", "filled"}] :
                       w_route = "/generate" => \A field \in RequestFields : d[field] # Null}
    /\ w_calls = <<>>
    /\ w_response = [code |-> 0, message |-> ""]

\* The value posted for a field.
Posted(data, field) == IF data[field] = "filled" THEN FilledIn[field] ELSE data[field]

\* generate_release_log: the form handler.
GenerateReleaseLog ==
    /\ w_pc = "input" /\ w_route = "/generate"
    /\ LET form == [field \in RequestFields |->
                       strip(IF w_data[field] = Absent THEN "" ELSE Posted(w_data, field))]
       IN  IF \E field \in RequestFields : form[field] = ""
           THEN /\ w_response' = [code |-> 302, message |-> "All fields are required!"]
                /\ UNCHANGED w_calls
           ELSE \E status \in ProcessStatuses :
                    /\ w_calls' = Append(w_calls, form)
                    /\ w_response' =
                           [code |-> 302,
                            message |-> IF status = "success"
                                        THEN "Release log generated and email sent successfully!"
                                        ELSE "Error: Error processing request"]
    /\ w_pc' = "done"
    /\ UNCHANGED <<w_route, w_data>>

\* api_generate_release_log: the JSON handler.
ApiGenerateReleaseLog ==
    /\ w_pc = "input" /\ w_route = "/api/generate"
    /\ IF \E field \in RequestFields : w_data[field] = Absent
       THEN /\ w_response' =
                   [code |-> 400,
                    message |-> "Missing required fields: repository, from_commit, "
                                    \o "to_commit, recipient_email"]
            /\ UNCHANGED w_calls
       ELSE IF \E field \in RequestFields : w_data[field] = Null
       THEN /\ w_response' = [code |-> 500, message |-> "validation error for GitHubRequest"]
            /\ UNCHANGED w_calls
       ELSE \E status \in ProcessStatuses :
                /\ w_calls' = Append(w_calls,
                                     [field \in RequestFields |-> Posted(w_data, field)])
                /\ w_response' = [code |-> 200, message |-> status]
    /\ w_pc' = "done"
    /\ UNCHANGED <<w_route, w_data>>

(***************************************************************************)
(* Two process_request calls at the same time.  A GitHubReleaseLogCrew     *)
(* creates its four agents once, in __init__; every process_request call   *)
(* on that instance hands the same agent objects to its tasks.  An agent   *)
(* keeps the task it is executing (its executor is rebuilt at each task    *)
(* start and read at each step), without synchronisation: a step reads     *)
(* whichever task was stored last.                                         *)
(***************************************************************************)
Calls == {"A", "B"}

Crews == {"crew1", "crew2"}

ToolOf(task) == IF task = 1 THEN "github_analyzer"
                ELSE IF task = NumTasks THEN "email_sender"
                ELSE None

ConcurrentInit ==
    /\ k_pc = [call \in Calls |-> "idle"]
    /\ k_crew \in {f \in [Calls -> Crews] : f["A"] = "crew1"}
    /\ k_request \in {f \in [Calls -> Requests] :
                          f["A"].recipient_email # f["B"].recipient_email}
    /\ k_stage = [call \in Calls |-> 0]
    /\ k_used = [call \in Calls |-> FALSE]
    /\ k_bound = [slot \in Crews \X (1..NumTasks) |-> None]
    /\ k_calls = <<>>
    /\ k_outcome = [call \in Calls |-> None]

\* process_request up to the first task being handed to its agent.
ConcurrentKickoff(call) ==
    /\ k_pc[call] = "idle"
    /\ k_pc' = [k_pc EXCEPT ![call] = "running"]
    /\ k_stage' = [k_stage EXCEPT ![call] = 1]
    /\ k_bound' = [k_bound EXCEPT ![<<k_crew[call], 1>>] = call]
    /\ UNCHANGED <<k_crew, k_request, k_used, k_calls, k_outcome>>

\* The agent of the call's current task uses its tool, for the task it holds.
ConcurrentUseTool(call) ==
    /\ k_pc[call] = "running"
    /\ ToolOf(k_stage[call]) # None
    /\ ~k_used[call]
    /\ LET holds == k_bound[<<k_crew[call], k_stage[call]>>]
       IN  k_calls' = Append(k_calls,
                             [call |-> call,
                              tool |-> ToolOf(k_stage[call]),
                              repository |-> k_request[holds].repository,
                              recipient_email |-> k_request[holds].recipient_email])
    /\ k_used' = [k_used EXCEPT ![call] = TRUE]
    /\ UNCHANGED <<k_pc, k_crew, k_request, k_stage, k_bound, k_outcome>>

\* The call's current task completes; the next task is handed to its agent,
\* or kickoff() returns and the success dict is built.
ConcurrentTaskCompletes(call) ==
    /\ k_pc[call] = "running"
    /\ ToolOf(k_stage[call]) # None => k_used[call]
    /\ IF k_stage[call] < NumTasks
       THEN /\ k_stage' = [k_stage EXCEPT ![call] = NextTask(k_stage[call])]
            /\ k_bound' = [k_bound EXCEPT
                               ![<<k_crew[call], NextTask(k_stage[call])>>] = call]
            /\ UNCHANGED <<k_pc, k_outcome>>
       ELSE /\ k_pc' = [k_pc EXCEPT ![call] = "done"]
            /\ k_outcome' = [k_outcome EXCEPT ![call] =
                   SuccessOutcome(k_request[call],
                       [task |-> TaskNames[NumTasks],
                        observations |-> SelectSeq(k_calls,
                            LAMBDA c : c.call = call /\ c.tool = "email_sender")])]
            /\ UNCHANGED <<k_stage, k_bound>>
    /\ k_used' = [k_used EXCEPT ![call] = FALSE]
    /\ UNCHANGED <<k_crew, k_request, k_calls>>

\* The call's current task raises; the except branch returns the error dict.
ConcurrentTaskRaises(call) ==
    /\ k_pc[call] = "running"
    /\ \E e \in AgentErrors :
         k_outcome' = [k_outcome EXCEPT ![call] = ErrorOutcome(k_request[call], e)]
    /\ k_pc' = [k_pc EXCEPT ![call] = "done"]
    /\ UNCHANGED <<k_crew, k_request, k_stage, k_used, k_bound, k_calls>>

(***************************************************************************)
(* Specifications.  Each one runs one part of the program and leaves the   *)
(* variables of the other parts at rest.                                   *)
(***************************************************************************)
ParseIdle ==
    p_pc = "idle" /\ p_owner = "" /\ p_name = "" /\ p_form = "" /\ p_result = None

CatIdle == c_pc = "idle" /\ c_files = <<>> /\ c_cats = None

AnalyzeIdle ==
    /\ a_pc = "off" /\ a_args = None /\ a_remote = None /\ a_calls = <<>>
    /\ a_files = <<>> /\ a_result = None

RunIdle ==
    /\ pc = "off" /\ request = None /\ stage = 0 /\ iter = 0 /\ observed = <<>>
    /\ outputs = <<>> /\ context = <<>> /\ analyses = <<>> /\ sent = <<>>
    /\ raised = None /\ outcome = None

VersionIdle == v_pc = "idle" /\ v_files = <<>> /\ v_commits = <<>> /\ v_result = None

ShaIdle ==
    /\ s_pc = [validate |-> "off", shorten |-> "off", subject |-> "off"]
    /\ s_sha = "" /\ s_other = "" /\ s_length = 0 /\ s_repository = ""
    /\ s_valid = FALSE /\ s_short = "" /\ s_again = "" /\ s_subject = ""

WebIdle ==
    /\ w_pc = "off" /\ w_route = "" /\ w_data = [field \in RequestFields |-> Absent]
    /\ w_calls = <<>> /\ w_response = [code |-> 0, message |-> ""]

ConcurrentIdle ==
    /\ k_pc = [call \in Calls |-> "off"]
    /\ k_crew = [call \in Calls |-> "crew1"]
    /\ k_request = [call \in Calls |-> None]
    /\ k_stage = [call \in Calls |-> 0]
    /\ k_used = [call \in Calls |-> FALSE]
    /\ k_bound = [slot \in Crews \X (1..NumTasks) |-> None]
    /\ k_calls = <<>>
    /\ k_outcome = [call \in Calls |-> None]

\* process_request
Init == RunInit /\ ParseIdle /\ CatIdle /\ VersionIdle /\ AnalyzeIdle /\ ConcurrentIdle /\ ShaIdle /\ WebIdle

NotRun == <<p_vars, c_vars, v_vars, a_vars, k_vars, s_vars, w_vars>>

Next ==
    \/ Kickoff /\ UNCHANGED NotRun
    \/ UseGitHubAnalyzerTool /\ UNCHANGED NotRun
    \/ UseRepositoryInfoTool /\ UNCHANGED NotRun
    \/ UseEmailSenderTool /\ UNCHANGED NotRun
    \/ TaskCompletes /\ UNCHANGED NotRun
    \/ TaskRaises /\ UNCHANGED NotRun

Spec == Init /\ [][Next]_vars

\* parse_repository_url
InitParse == ParseInit /\ CatIdle /\ VersionIdle /\ AnalyzeIdle /\ RunIdle /\ ConcurrentIdle /\ ShaIdle /\ WebIdle

NextParse == Parse /\ UNCHANGED <<c_vars, v_vars, a_vars, r_vars, k_vars, s_vars, w_vars>>

SpecParse == InitParse /\ [][NextParse]_vars

\* categorize_file_changes
InitCat == CatInit /\ ParseIdle /\ VersionIdle /\ AnalyzeIdle /\ RunIdle /\ ConcurrentIdle /\ ShaIdle /\ WebIdle

NextCat == Categorize /\ UNCHANGED <<p_vars, v_vars, a_vars, r_vars, k_vars, s_vars, w_vars>>

SpecCat == InitCat /\ [][NextCat]_vars

\* generate_version_suggestion
InitVersion == VersionInit /\ ParseIdle /\ CatIdle /\ AnalyzeIdle /\ RunIdle /\ ConcurrentIdle /\ ShaIdle /\ WebIdle

NextVersion == SuggestVersion /\ UNCHANGED <<p_vars, c_vars, a_vars, r_vars, k_vars, s_vars, w_vars>>

SpecVersion == InitVersion /\ [][NextVersion]_vars

\* generate_version_suggestion on commit dicts of any shape
InitClassify == ClassifyInit /\ ParseIdle /\ CatIdle /\ AnalyzeIdle /\ RunIdle /\ ConcurrentIdle /\ ShaIdle /\ WebIdle

SpecClassify == InitClassify /\ [][NextVersion]_vars

\* generate_version_suggestion on lists to be rearranged and extended
InitOrder ==
    /\ OrderInit /\ ParseIdle /\ CatIdle /\ AnalyzeIdle /\ RunIdle /\ ConcurrentIdle
    /\ ShaIdle /\ WebIdle

SpecOrder == InitOrder /\ [][NextVersion]_vars

\* analyze_repository_changes
InitAnalyze == AnalyzeInit /\ ParseIdle /\ CatIdle /\ VersionIdle /\ RunIdle /\ ConcurrentIdle /\ ShaIdle /\ WebIdle

NotAnalyze == <<p_vars, c_vars, v_vars, r_vars, k_vars, s_vars, w_vars>>

NextAnalyze ==
    \/ AnalyzeStart /\ UNCHANGED NotAnalyze
    \/ AnalyzeFinish /\ UNCHANGED NotAnalyze
    \/ RemoteUpdate /\ UNCHANGED NotAnalyze

SpecAnalyze == InitAnalyze /\ [][NextAnalyze]_vars

\* two process_request calls at the same time
InitConcurrent ==
    /\ ConcurrentInit /\ ParseIdle /\ CatIdle /\ VersionIdle /\ AnalyzeIdle /\ RunIdle
    /\ ShaIdle /\ WebIdle

NotConcurrent == <<p_vars, c_vars, v_vars, a_vars, r_vars, s_vars, w_vars>>

NextConcurrent ==
    \E call \in Calls :
        \/ ConcurrentKickoff(call) /\ UNCHANGED NotConcurrent
        \/ ConcurrentUseTool(call) /\ UNCHANGED NotConcurrent
        \/ ConcurrentTaskCompletes(call) /\ UNCHANGED NotConcurrent
        \/ ConcurrentTaskRaises(call) /\ UNCHANGED NotConcurrent

SpecConcurrent == InitConcurrent /\ [][NextConcurrent]_vars

\* One analysis of a repository nobody pushes to meanwhile, and the
\* classification of the files and commits of its comparison.
ScenarioInit ==
    /\ AnalyzeInit
    /\ a_args.repository = "octo/demo" /\ a_args.to_commit = "main"
    /\ c_pc = "input" /\ c_files = get_commit_diff(a_remote) /\ c_cats = None
    /\ v_pc = "input" /\ v_files = get_commit_diff(a_remote)
    /\ v_commits = get_commits_info(a_remote) /\ v_result = None

InitScenario == ScenarioInit /\ ParseIdle /\ RunIdle /\ ConcurrentIdle /\ ShaIdle /\ WebIdle

NextScenario ==
    \/ AnalyzeStart /\ UNCHANGED <<p_vars, c_vars, v_vars, r_vars, k_vars, s_vars, w_vars>>
    \/ AnalyzeFinish /\ UNCHANGED <<p_vars, c_vars, v_vars, r_vars, k_vars, s_vars, w_vars>>
    \/ Categorize /\ UNCHANGED <<p_vars, v_vars, a_vars, r_vars, k_vars, s_vars, w_vars>>
    \/ SuggestVersion /\ UNCHANGED <<p_vars, c_vars, a_vars, r_vars, k_vars, s_vars, w_vars>>

SpecScenario == InitScenario /\ [][NextScenario]_vars

\* validate_commit_sha, shorten_sha, create_subject_line
InitSha ==
    /\ ShaInit /\ ParseIdle /\ CatIdle /\ VersionIdle /\ AnalyzeIdle /\ RunIdle
    /\ ConcurrentIdle /\ WebIdle

NotSha == <<p_vars, c_vars, v_vars, a_vars, r_vars, k_vars, w_vars>>

NextSha ==
    \/ ValidateSha /\ UNCHANGED NotSha
    \/ ShortenSha /\ UNCHANGED NotSha
    \/ CreateSubject /\ UNCHANGED NotSha

SpecSha == InitSha /\ [][NextSha]_vars

\* the web entry points
InitWeb ==
    /\ WebInit /\ ParseIdle /\ CatIdle /\ VersionIdle /\ AnalyzeIdle /\ RunIdle
    /\ ConcurrentIdle /\ ShaIdle

NotWeb == <<p_vars, c_vars, v_vars, a_vars, r_vars, k_vars, s_vars>>

NextWeb ==
    \/ GenerateReleaseLog /\ UNCHANGED NotWeb
    \/ ApiGenerateReleaseLog /\ UNCHANGED NotWeb

SpecWeb == InitWeb /\ [][NextWeb]_vars

(***************************************************************************)
(* Properties                                                              *)
(***************************************************************************)
Range(seq) == {seq[i] : i \in DOMAIN seq}

Count(seq, x) == Cardinality({i \in DOMAIN seq : seq[i] = x})

Finished == pc = "done"

\* C1 (as claimed): once a call of analyze_repository_changes made by the
\* GitHub analysis tool has raised, the run goes no further than the first
\* task, send_email is never called, and the run ends with status "error"
\* carrying that error.
ShortCircuitOnToolFailure ==
    \A i \in DOMAIN analyses :
        ~analyses[i].ok =>
            /\ stage = 1
            /\ sent = <<>>
            /\ Finished => /\ outcome.status = "error"
                           /\ contains(outcome.message, analyses[i].error)

\* C2 (as claimed): a run ends with status "success" only if a call of
\* analyze_repository_changes returned a diff and a call of send_email
\* returned True in that run.
SuccessOnlyIfDiffedAndDelivered ==
    (Finished /\ outcome.status = "success") =>
        /\ \E i \in DOMAIN analyses : analyses[i].ok
        /\ \E i \in DOMAIN sent : ~sent[i].raised /\ sent[i].returned

\* C3 (as claimed): the message of an error outcome is exactly the message
\* of the exception that was raised.
ErrorMessageVerbatim ==
    (Finished /\ outcome.status = "error") => outcome.message = raised

\* C3 (amended): the message of an error outcome is the fixed text
\* "Error processing request: " followed by exactly the message of the
\* exception that was raised.
ErrorMessageCarriesCause ==
    (Finished /\ outcome.status = "error") =>
        /\ outcome.message = "Error processing request: " \o raised
        /\ endswith(outcome.message, raised)

\* C3 witness: a run that failed in the third task.
ErrorAfterRaise ==
    /\ Finished /\ outcome.status = "error" /\ stage = 3
    /\ raised = "Rate limit reached"

\* The names of the tasks whose outputs task i was given as context.
ContextTasks(i) == {context[i][k].task : k \in DOMAIN context[i]}

ParseYieldsOwnerAndName ==
    (p_pc = "parsed" /\ p_form \in Forms) =>
                       /\ p_result.ok
                       /\ p_result.owner = p_owner
                       /\ p_result.repo = p_name

\* C6 (as claimed): whichever spelling of owner/name is passed in, the
\* repository is looked up under the name owner/name, and a returned
\* AnalysisResult has repository = owner/name.
AnalyzeResolvesOwnerName ==
    \A f \in Forms, o \in HostedOwners, n \in HostedNames :
        (a_pc # "off" /\ a_args.repository = Spell(f, o, n)) =>
            /\ \A i \in DOMAIN a_calls :
                   a_calls[i][1] = "get_repo" => a_calls[i][2] = o \o "/" \o n
            /\ a_pc = "done" => a_result.repository = o \o "/" \o n

\* Sum of a field over a sequence, from the last element down.
RECURSIVE SumTo(_, _, _)
SumTo(seq, field, k) == IF k = 0 THEN 0 ELSE seq[k][field] + SumTo(seq, field, k - 1)

\* C7: in every returned AnalysisResult, total_additions and total_deletions
\* are the sums of additions and deletions over file_changes, and
\* total_files_changed is the length of file_changes.
TotalsMatchFileChanges ==
    a_pc = "done" =>
        LET fc == a_result.file_changes
        IN  /\ a_result.total_additions = SumTo(fc, "additions", Len(fc))
            /\ a_result.total_deletions = SumTo(fc, "deletions", Len(fc))
            /\ a_result.total_files_changed = Cardinality(DOMAIN fc)

\* C7 witness: a result over both files, 13 additions and 2 deletions.
TwoFilesTotalled ==
    /\ a_pc = "done"
    /\ Len(a_result.file_changes) = 2
    /\ a_result.file_changes[1].file_path # a_result.file_changes[2].file_path
    /\ a_result.total_additions = 13 /\ a_result.total_deletions = 2

\* The file paths of the input, in input order.
InputPaths == [i \in DOMAIN c_files |-> get(c_files[i], "file_path", "")]

BucketPaths == UNION {Range(c_cats[b]) : b \in Buckets}

\* Occurrences of a path over all buckets.
RECURSIVE CountIn(_, _)
CountIn(bs, path) ==
    IF bs = {} THEN 0
    ELSE LET b == CHOOSE x \in bs : TRUE
         IN  Count(c_cats[b], path) + CountIn(bs \ {b}, path)

\* C8 (as claimed): the buckets are the six named ones, their union is the
\* set of input paths, and no path occurs twice, neither in two buckets nor
\* twice in one.
CategorizePartitionsPaths ==
    c_pc = "done" =>
        /\ DOMAIN c_cats = Buckets
        /\ BucketPaths = Range(InputPaths)
        /\ \A path \in Range(InputPaths) : CountIn(Buckets, path) = 1

\* C8 (amended): the buckets are the six named ones, their union is the set
\* of input paths, every path occurs in exactly one bucket, and it occurs
\* there as often as it occurs in the input list (once when the input paths
\* are pairwise distinct).
CategorizePartitionsOccurrences ==
    c_pc = "done" =>
        /\ DOMAIN c_cats = Buckets
        /\ BucketPaths = Range(InputPaths)
        /\ \A path \in Range(InputPaths) :
               /\ Cardinality({b \in Buckets : path \in Range(c_cats[b])}) = 1
               /\ CountIn(Buckets, path) = Count(InputPaths, path)

\* C8 witness: two different files in two buckets.
TwoFilesTwoBuckets ==
    /\ c_pc = "done" /\ Len(c_files) = 2
    /\ c_cats["source_code"] = <<"src/main.py">>
    /\ c_cats["documentation"] = <<"README.md">>

Manifests == {"package.json", "requirements.txt", "Gemfile", "pom.xml", "build.gradle"}

\* The rules of the reference, by priority.
RefBuckets == <<"tests", "documentation", "dependencies", "config", "source_code">>

RefMatches(rule, path) ==
    CASE rule = 1 -> \/ \E m \in {"/test/", "/tests/", "_test.", ".test.", "spec."} :
                            contains(path, m)
                     \/ startswith(path, "test/") \/ startswith(path, "tests/")
      [] rule = 2 -> \E e \in {".md", ".txt", ".rst", ".adoc"} : endswith(path, e)
      [] rule = 3 -> \E m \in Manifests : contains(path, m)
      [] rule = 4 -> \E e \in {".json", ".yaml", ".yml", ".toml", ".ini", ".env"} :
                          endswith(path, e)
      [] rule = 5 -> \E e \in {".py", ".js", ".ts", ".java", ".cpp", ".c", ".go", ".rb",
                               ".php", ".rs", ".swift"} : endswith(path, e)

FirstMatch(path) ==
    LET hits == {r \in DOMAIN RefBuckets : RefMatches(r, path)}
    IN  IF hits = {} THEN "other"
        ELSE RefBuckets[CHOOSE r \in hits : \A q \in hits : r <= q]

FileNameOf(path) == LET segs == split(path, "/") IN segs[Len(segs)]

\* C10 (as claimed): a path without test marker is in the dependencies
\* bucket if and only if its file name is exactly one of the five manifests.
DependenciesIffManifestName ==
    c_pc = "done" =>
        \A path \in Range(InputPaths) :
            ~RefMatches(1, path) =>
                (path \in Range(c_cats["dependencies"]) <=> FileNameOf(path) \in Manifests)

(***************************************************************************)
(* generate_version_suggestion: what the commits and files say             *)
(***************************************************************************)
MessagesOf(commits_info) ==
    [i \in 1..Len(commits_info) |-> get(commits_info[i], "message", "")]

\* Some message contains one of the markers, ignoring case.
AnyMarked(messages, markers) ==
    \E i \in 1..Len(messages) : \E marker \in markers :
        contains(lower(messages[i]), marker)

BreakingMarkers == {"breaking", "breaking change", "breaking:", "major:"}

FeatureMarkers == {"feat:", "feature:", "add:", "new:"}

HasSourceCode(file_changes) ==
    \E i \in 1..Len(file_changes) :
        FirstMatch(get(file_changes[i], "file_path", "")) = "source_code"

\* The breaking check and the feature check as two independent passes.
TwoPasses(file_changes, commits_info) ==
    LET breaking == AnyMarked(MessagesOf(commits_info), BreakingMarkers)
        feature == AnyMarked(MessagesOf(commits_info), FeatureMarkers)
    IN  IF breaking THEN "major"
        ELSE IF feature \/ HasSourceCode(file_changes) THEN "minor"
        ELSE "patch"

\* C11: if at least one commit message contains a breaking marker (ignoring
\* case) the suggestion is "major", whatever feature markers and file
\* changes come with it; and the suggestion always equals the one obtained
\* from two independent passes over all commits.
BreakingTakesPriority ==
    v_pc = "done" =>
        /\ v_result.ok
        /\ AnyMarked(MessagesOf(v_commits), BreakingMarkers) => v_result.value = "major"
        /\ v_result.value = TwoPasses(v_files, v_commits)

\* C11 witness: a feature commit ahead of a breaking commit, with a source
\* file changed, suggested "major".
FeatureThenBreakingIsMajor ==
    /\ v_pc = "done"
    /\ v_commits = <<[message |-> "feat: add widget"],
                     [message |-> "BREAKING: remove deprecated API"]>>
    /\ v_files = <<[file_path |-> "src/a.py"]>>
    /\ v_result.ok
    /\ v_result.value = "major"

\* C12: when no commit message contains a breaking marker, the suggestion
\* is "minor" if and only if some message contains a feature marker
\* (ignoring case) or the source_code bucket is non-empty; otherwise it is
\* "patch", in particular for empty commit and file lists.
MinorIffFeatureOrSource ==
    (v_pc = "done" /\ ~AnyMarked(MessagesOf(v_commits), BreakingMarkers)) =>
        /\ v_result.ok
        /\ v_result.value = "minor" <=>
               \/ AnyMarked(MessagesOf(v_commits), FeatureMarkers)
               \/ Len(categorize_file_changes(v_files)["source_code"]) > 0
        /\ v_result.value \in {"minor", "patch"}
        /\ (v_commits = <<>> /\ v_files = <<>>) => v_result.value = "patch"

\* C12 witness: no marker in any message, one source file: "minor".
SourceChangeAloneIsMinor ==
    /\ v_pc = "done"
    /\ v_commits = <<[message |-> "fix typo"]>>
    /\ v_files = <<[file_path |-> "README.md"], [file_path |-> "src/a.py"]>>
    /\ v_result.ok
    /\ v_result.value = "minor"

\* C13: for commit records of any shape (no message, null message) and file
\* records with or without file_path, categorize_file_changes returns a
\* mapping with exactly the six bucket names, and
\* generate_version_suggestion returns one of "major", "minor", "patch"
\* and does not raise.
ClassificationNeverFails ==
    v_pc = "done" =>
        /\ DOMAIN categorize_file_changes(v_files) = Buckets
        /\ v_result.ok
        /\ v_result.value \in {"major", "minor", "patch"}

(***************************************************************************)
(* process_request: outcome fields and task order                          *)
(***************************************************************************)
IdentifyingFields == {"repository", "from_commit", "to_commit", "recipient_email"}

\* C14: every outcome of process_request, success or error, carries the
\* request's repository, from_commit, to_commit and recipient_email
\* unchanged; a success outcome carries the email task's output as result.
OutcomeEchoesRequest ==
    Finished =>
        /\ \A field \in IdentifyingFields : outcome[field] = request[field]
        /\ outcome.status = "success" =>
               /\ outcome.result = outputs[NumTasks]
               /\ outcome.result.task = TaskNames[NumTasks]

\* C14 witness: a run that ended in success after the email tool was used.
SuccessAfterEmailTask ==
    /\ Finished
    /\ outcome.status = "success"
    /\ Len(outputs) = NumTasks
    /\ sent # <<>>

\* Tasks started so far are 1..stage, in that order; all but possibly the
\* last have completed, each exactly once.
StagesInOrder ==
    pc \in {"running", "done"} =>
        /\ stage \in 1..NumTasks
        /\ Len(context) = stage
        /\ Len(outputs) \in {stage - 1, stage}
        /\ pc = "running" => Len(outputs) = stage - 1
        /\ \A i \in 1..Len(outputs) : outputs[i].task = TaskNames[i]
        /\ (pc = "done" /\ outcome.status = "success") => Len(outputs) = NumTasks

\* A task starts only as the successor of the task that has just completed.
StartsAfterPredecessor ==
    stage' # stage =>
        /\ stage' = stage + 1
        /\ Len(outputs') = stage
        /\ stage >= 1 => outputs'[stage].task = TaskNames[stage]

\* C15: the tasks start in the order GitHub analysis, code analysis,
\* release-log generation, email sending; none starts before the previous
\* one has completed, and a successful run has run each exactly once.
StrictStageOrder == []StagesInOrder /\ [][StartsAfterPredecessor]_vars

\* C15 witness: a successful run, all four tasks completed in order.
AllFourTasksCompleted ==
    /\ Finished
    /\ outcome.status = "success"
    /\ [i \in 1..Len(outputs) |-> outputs[i].task] = TaskNames

(***************************************************************************)
(* Concurrent process_request calls                                        *)
(***************************************************************************)
\* C16: under every interleaving of two process_request calls, on one
\* instance or on two, each tool call a run makes (the repository it
\* analyses, the recipient it mails) and each run's outcome are those of
\* that run's own request.
RunsAreIndependent ==
    /\ \A i \in 1..Len(k_calls) :
           /\ k_calls[i].repository = k_request[k_calls[i].call].repository
           /\ k_calls[i].recipient_email = k_request[k_calls[i].call].recipient_email
    /\ \A call \in Calls :
           k_pc[call] = "done" =>
               \A field \in IdentifyingFields :
                   k_outcome[call][field] = k_request[call][field]

\* The same, for calls running on different instances only.
RunsOnOwnCrewsAreIndependent == k_crew["A"] # k_crew["B"] => RunsAreIndependent

(***************************************************************************)
(* analyze_repository_changes: revision pointers and malformed identifiers *)
(***************************************************************************)
CompareCalls == SelectSeq(a_calls, LAMBDA c : c[1] = "compare")

\* C17: every compare call gets the full from_commit and to_commit, the
\* result stores them unmodified, and only the summary text carries their
\* first 8 characters.
PointersShortenedForDisplayOnly ==
    /\ \A i \in 1..Len(CompareCalls) :
           /\ CompareCalls[i][2] = a_args.from_commit
           /\ CompareCalls[i][3] = a_args.to_commit
    /\ a_pc = "done" =>
           /\ a_result.from_commit = a_args.from_commit
           /\ a_result.to_commit = a_args.to_commit
           /\ contains(a_result.summary,
                       " from " \o prefix(a_args.from_commit, 8)
                           \o " to " \o prefix(a_args.to_commit, 8) \o ":")
           /\ Len(a_args.to_commit) > 8 => ~contains(a_result.summary, a_args.to_commit)

\* C17 witness: an analysis to a 20-character pointer, both compare calls
\* made, result returned.
LongPointerAnalysed ==
    /\ a_pc = "done"
    /\ a_args.to_commit = "0123456789abcdef0123"
    /\ Len(CompareCalls) = 2
    /\ a_result.ok

\* The path segments left after the scheme and host, a trailing slash and a
\* trailing ".git" are taken off.
Segments(repository) ==
    LET noHost == IF startswith(repository, "https://github.com/")
                  THEN SubSeq(repository, Len("https://github.com/") + 1, Len(repository))
                  ELSE IF startswith(repository, "git@github.com:")
                  THEN SubSeq(repository, Len("git@github.com:") + 1, Len(repository))
                  ELSE repository
        noSlash == rstrip(noHost, "/")
        noGit == IF endswith(noSlash, ".git")
                 THEN SubSeq(noSlash, 1, Len(noSlash) - Len(".git"))
                 ELSE noSlash
    IN  split(noGit, "/")

\* No slash, an empty owner or name, or more than two segments.
Malformed(repository) ==
    LET parts == Segments(repository)
    IN  ~(Len(parts) = 2 /\ parts[1] # "" /\ parts[2] # "")

\* C18: for a repository string that is not exactly one owner/name pair,
\* analyze_repository_changes fails with the invalid-format error and calls
\* neither get_repo nor compare.
MalformedRejectedBeforeAnyCall ==
    (a_pc \notin {"off", "idle"} /\ Malformed(a_args.repository)) =>
        /\ a_calls = <<>>
        /\ a_pc = "failed"
        /\ startswith(a_result.error, "Invalid repository format")

(***************************************************************************)
(* process_request: repeated analysis                                      *)
(***************************************************************************)
\* C19: in a run in which a call of analyze_repository_changes failed, that
\* call is the only one (it is not made again), and the run ends in error.
NoRetryAfterFailedAnalysis ==
    (\E i \in 1..Len(analyses) : ~analyses[i].ok) =>
        /\ Len(analyses) = 1
        /\ Finished => outcome.status = "error"

(***************************************************************************)
(* parse_repository_url: the ".git" suffix                                 *)
(***************************************************************************)
\* C20: the three spellings ending in ".git" (ssh, https, owner/name.git)
\* parse to (owner, name): the suffix is taken off and any other ".git"
\* inside the name stays.
GitSuffixAloneIsStripped ==
    (p_pc = "parsed" /\ p_form \in GitForms \cup {"ssh"}) =>
        /\ p_result.ok
        /\ p_result.owner = p_owner
        /\ p_result.repo = p_name

(***************************************************************************)
(* analyze_repository_changes: the commits of the comparison               *)
(***************************************************************************)
\* The fields AnalysisResult declares (config.py), and the model's ok flag.
AnalysisResultFields ==
    {"ok", "repository", "from_commit", "to_commit", "total_files_changed",
     "total_additions", "total_deletions", "file_changes", "summary"}

\* C21: the result of analyze_repository_changes carries one commit record
\* (sha, message, author, date, url) per commit of the comparison, in the
\* order the hosting API returned them.
CommitsCarriedInApiOrder ==
    a_pc = "done" =>
        \E field \in DOMAIN a_result \ AnalysisResultFields :
            a_result[field] = get_commits_info(a_remote)

(***************************************************************************)
(* validate_commit_sha, shorten_sha, create_subject_line                   *)
(***************************************************************************)
HexCharacters ==
    {"0", "1", "2", "3", "4", "5", "6", "7", "8", "9", "a", "b", "c", "d", "e", "f",
     "A", "B", "C", "D", "E", "F"}

\* C22: validate_commit_sha(s) is True exactly when s has 4 to 40
\* characters, all of them hexadecimal digits.
ShaValidIffHexOfLength4To40 ==
    s_pc.validate = "done" =>
        (s_valid <=> /\ Len(s_sha) >= 4
                     /\ Len(s_sha) <= 40
                     /\ \A i \in 1..Len(s_sha) : SubSeq(s_sha, i, i) \in HexCharacters)

\* C22 witness: a 40-character hex string validated, and accepted.
FullShaAccepted ==
    /\ s_pc.validate = "done"
    /\ Len(s_sha) = 40
    /\ s_valid

Min(a, b) == IF a < b THEN a ELSE b

\* shorten_sha gave the first s_length characters of a longer sha and the
\* sha itself otherwise: a prefix of length min(s_length, len(sha)); a
\* second application changes nothing.
ShortenedToPrefix ==
    /\ s_short = (IF Len(s_sha) > s_length THEN SubSeq(s_sha, 1, s_length) ELSE s_sha)
    /\ Len(s_short) = Min(s_length, Len(s_sha))
    /\ startswith(s_sha, s_short)
    /\ s_again = s_short

SubjectNamesRepositoryAndCommits ==
    /\ contains(s_subject, s_repository)
    /\ contains(s_subject, prefix(s_sha, 7))
    /\ contains(s_subject, prefix(s_other, 7))

IsScenarioFiles(file_changes) ==
    /\ Len(file_changes) = 2
    /\ file_changes[1].file_path = "src/a.py"
    /\ file_changes[1].additions = 10 /\ file_changes[1].deletions = 2
    /\ file_changes[1].status = "modified"
    /\ file_changes[2].file_path = "README.md"
    /\ file_changes[2].additions = 3 /\ file_changes[2].deletions = 0
    /\ file_changes[2].status = "modified"

IsScenarioCommits(commits_info) ==
    Len(commits_info) = 1 /\ commits_info[1].message = "feat: add widget"

\* C23: for files [src/a.py (+10/-2), README.md (+3/-0)] and commits
\* ["feat: add widget"] the totals are 2 files, 13 additions, 2 deletions;
\* src/a.py alone is in source_code, README.md alone in documentation, the
\* other buckets are empty; and the suggested version is "minor".
ScenarioGivesTotalsBucketsAndMinor ==
    /\ (a_pc = "done" /\ IsScenarioFiles(a_result.file_changes)) =>
           /\ a_result.total_files_changed = 2
           /\ a_result.total_additions = 13
           /\ a_result.total_deletions = 2
    /\ (c_pc = "done" /\ IsScenarioFiles(c_files)) =>
           c_cats = [bucket \in Buckets |->
                        IF bucket = "source_code" THEN <<"src/a.py">>
                        ELSE IF bucket = "documentation" THEN <<"README.md">>
                        ELSE <<>>]
    /\ (v_pc = "done" /\ IsScenarioFiles(v_files) /\ IsScenarioCommits(v_commits)) =>
           v_result.ok /\ v_result.value = "minor"

\* C23 witness: the scenario analysed, categorized and given a version.
ScenarioRan ==
    /\ a_pc = "done" /\ IsScenarioFiles(a_result.file_changes)
    /\ c_pc = "done" /\ IsScenarioFiles(c_files)
    /\ v_pc = "done" /\ IsScenarioFiles(v_files) /\ IsScenarioCommits(v_commits)
    /\ a_result.total_additions = 13
    /\ c_cats["documentation"] = <<"README.md">>
    /\ v_result.value = "minor"

(***************************************************************************)
(* process_request: the terminal outcome                                   *)
(***************************************************************************)
\* C25: every call of process_request ends with one dict whose status is
\* "success" or "error"; an exception raised at any stage ends the run with
\* status "error" instead of leaving process_request; and once the call has
\* returned nothing of the run changes any more.
OneTerminalOutcome ==
    /\ [](Finished => outcome.status \in {"success", "error"})
    /\ [](raised # None => Finished /\ outcome.status = "error")
    /\ [][pc = "done" => UNCHANGED r_vars]_vars

\* C25 witness: an exception raised by the third task ended the run in error.
ErrorAtThirdTask ==
    /\ Finished
    /\ stage = 3
    /\ raised # None
    /\ outcome.status = "error"
    /\ Len(outputs) = 2

(***************************************************************************)
(* get_commit_diff: the files of the comparison                            *)
(***************************************************************************)
\* Each CommitDiff is the copy of the file entry at the same position.
CopiesOf(file_changes, files) ==
    /\ Len(file_changes) = Len(files)
    /\ \A i \in 1..Len(files) :
           /\ file_changes[i].file_path = files[i].filename
           /\ file_changes[i].additions = files[i].additions
           /\ file_changes[i].deletions = files[i].deletions
           /\ file_changes[i].status = files[i].status
           /\ file_changes[i].changes # None
           /\ file_changes[i].changes = (IF files[i].patch = None THEN "" ELSE files[i].patch)

\* C26: get_commit_diff returns one CommitDiff per file of the comparison,
\* in the same order, path, counts and status copied, changes the patch or
\* the empty string (never null) when the patch is missing; the result
\* carries that list.
FilesMappedOneToOne ==
    /\ [][(a_pc = "idle" /\ a_pc' = "diffed") => CopiesOf(a_files', a_remote.files)]_vars
    /\ [](a_pc = "done" => a_result.file_changes = a_files)

\* C26 witness: two files diffed, one with a patch and one without.
PatchAndNoPatchDiffed ==
    /\ a_pc = "diffed"
    /\ Len(a_files) = 2
    /\ a_files[1].changes = ""
    /\ a_files[2].changes # ""

\* C27: the file changes and the commit count of one AnalysisResult are
\* those of one and the same comparison, also when the repository is
\* pushed to while analyze_repository_changes runs.
SnapshotConsistent ==
    a_pc = "done" =>
        /\ a_result.file_changes = get_commit_diff(a_remote)
        /\ contains(a_result.summary,
                    "- " \o ToString(Len(a_remote.commits)) \o " commits analyzed")

(***************************************************************************)
(* generate_version_suggestion: order and growth of the inputs             *)
(***************************************************************************)
Perms(n) == {q \in [1..n -> 1..n] : \A i, j \in 1..n : q[i] = q[j] => i = j}

Rearranged(seq) == {[i \in 1..Len(seq) |-> seq[q[i]]] : q \in Perms(Len(seq))}

Rank(version) == IF version = "patch" THEN 0 ELSE IF version = "minor" THEN 1 ELSE 2

\* C28: the suggestion is the same for every rearrangement of the commits
\* and of the file changes, and one more commit or file change, put first
\* or last, never lowers it in patch < minor < major.
SuggestionOrderFreeAndMonotone ==
    v_pc = "done" =>
        /\ \A files \in Rearranged(v_files) :
               generate_version_suggestion(files, v_commits) = v_result
        /\ \A commits \in Rearranged(v_commits) :
               generate_version_suggestion(v_files, commits) = v_result
        /\ \A commit \in {[message |-> m] : m \in OrderMessages} :
               \A longer \in {<<commit>> \o v_commits, Append(v_commits, commit)} :
                   Rank(generate_version_suggestion(v_files, longer).value)
                       >= Rank(v_result.value)
        /\ \A file \in OrderFiles :
               \A longer \in {<<file>> \o v_files, Append(v_files, file)} :
                   Rank(generate_version_suggestion(longer, v_commits).value)
                       >= Rank(v_result.value)

\* C28 witness: a breaking commit ahead of a feature commit, which either
\* order puts at "major".
BreakingThenFeatureIsMajor ==
    /\ v_pc = "done"
    /\ v_commits = <<[message |-> "BREAKING: x"], [message |-> "feat: y"]>>
    /\ v_files = <<[file_path |-> "b.md"], [file_path |-> "a.py"]>>
    /\ v_result.value = "major"

(***************************************************************************)
(* process_request: what a failed tool call leaves behind                  *)
(***************************************************************************)
IsFailureText(text) ==
    \/ startswith(text, "Error analyzing repository: ")
    \/ startswith(text, "Error getting repository info: ")
    \/ startswith(text, "Error sending email: ")
    \/ startswith(text, "Failed to send email")

\* C29: a failure of analyze_repository_changes, get_repository_info or
\* send_email inside a tool fails the task it happened in: no completed
\* task hands such a failure on as part of its output, and the run it
\* happened in ends in error.
ToolFailureFailsItsTask ==
    /\ \A i \in 1..Len(outputs) :
           \A j \in 1..Len(outputs[i].observations) :
               ~IsFailureText(outputs[i].observations[j])
    /\ (Finished /\ \E j \in 1..Len(observed) : IsFailureText(observed[j])) =>
           outcome.status = "error"

(***************************************************************************)
(* The web entry points                                                    *)
(***************************************************************************)
\* C30: when any of repository, from_commit, to_commit, recipient_email is
\* absent or the empty string, neither handler calls crew.process_request;
\* the form handler flashes the error and redirects, the JSON handler
\* answers 400.
NoRunWithMissingOrEmptyField ==
    (w_pc = "done" /\ \E field \in RequestFields : w_data[field] \in {Absent, ""}) =>
        /\ w_calls = <<>>
        /\ w_route = "/generate" =>
               w_response = [code |-> 302, message |-> "All fields are required!"]
        /\ w_route = "/api/generate" => w_response.code = 400

====
